---- MODULE Spec2Model ----
(***************************************************************************)
(* Folder Timestamps Analyzer (src/folder-timestamps.ts).                  *)
(*                                                                         *)
(* main validates its argument, normalizes it, calls the recursive         *)
(* scanDirectory and prints the table.  The recursion of scanDirectory is  *)
(* modelled by an explicit call stack of frames; the file system and the   *)
(* command line are the environment, fixed in Init.                        *)
(***************************************************************************)
EXTENDS Integers, Sequences, FiniteSets, TLC

\* ------------------------------------------------------------------------
\* Bounds of the environment
\* ------------------------------------------------------------------------
\* The scanned tree lives on a skeleton of entry slots 1..MaxNode (at most 8):
\* slot 1 is the target directory, slot n > 1 is an entry of slot Parent(n).
MaxNode == 5
\* File times are 1..MaxTime (a later time is a larger number).
MaxTime == 2

\* Date | null: the null of latestCreated, latestModified, birthtime, mtime.
NULL == 0

Nodes == 1..MaxNode
Root == 1
\* slots 2 and 3 are entries of the target, 4 and 7 of slot 2, 5 of slot 4,
\* 6 of slot 5, 8 of slot 3
Parent(n) == <<0, 1, 1, 2, 4, 5, 2, 3>>[n]
Slots(n) == {c \in Nodes : c # Root /\ Parent(c) = n}
\* entry.name of the entry in slot n (distinct among the entries of one directory)
Name(n) == IF n \in {3, 7} THEN <<"d">> ELSE <<"s", "u", "b">>

RECURSIVE IsAncestorOrSelf(_, _)
IsAncestorOrSelf(a, n) == n = a \/ (n # Root /\ IsAncestorOrSelf(a, Parent(n)))
RECURSIVE Depth(_)
Depth(n) == IF n = Root THEN 0 ELSE 1 + Depth(Parent(n))

VARIABLES
    args,            \* Deno.args: a sequence of arguments, each a sequence of characters or one flag token
    fs,              \* the file system under the target: slot -> [kind, ok, birthtime, mtime]
    pc,              \* position of main
    exitCode,        \* code passed to Deno.exit, -1 while the process has not exited
    errors,          \* console.error lines written by main
    helpPrinted,     \* printHelp() was called
    targetPath,      \* main's targetPath
    normalizedPath,  \* main's normalizedPath
    stack,           \* active scanDirectory calls, innermost last
    stats,           \* main's stats: the value returned by the outermost scanDirectory
    table,           \* what displayResults prints: the rows, then the summary
    scanLog,         \* console.error lines written by scanDirectory: the directories whose scan failed
    yielded,         \* history: slot of a directory -> entries Deno.readDir has yielded for it in this scan
    run,             \* which scan of the tree this is (1, or 2 after Rescan)
    prev             \* result of the first scan, kept for comparison by Rescan

vars == <<args, fs, pc, exitCode, errors, helpPrinted, targetPath, normalizedPath,
          stack, stats, table, scanLog, yielded, run, prev>>

env == <<args, fs>>

\* ------------------------------------------------------------------------
\* Strings (sequences of one-character strings)
\* ------------------------------------------------------------------------
StartsWith(s, p) == Len(p) <= Len(s) /\ SubSeq(s, 1, Len(p)) = p
EndsWith(s, p) == Len(p) <= Len(s) /\ SubSeq(s, Len(s) - Len(p) + 1, Len(s)) = p
Substring(s, from) == SubSeq(s, from + 1, Len(s))

\* Deno.build.os === "windows" ? "\\" : "/"  (a POSIX build)
os == "linux"
separator == IF os = "windows" THEN "\\" ELSE "/"

\* s.split(/[\\/]/).join(sep): every slash or backslash becomes sep
SplitJoin(s, sep) == [i \in 1..Len(s) |-> IF s[i] \in {"\\", "/"} THEN sep ELSE s[i]]
\* s.replace(/\\/g, "/")
ReplaceBackslashes(s) == [i \in 1..Len(s) |-> IF s[i] = "\\" THEN "/" ELSE s[i]]

\* ------------------------------------------------------------------------
\* The environment: command line and file system
\* ------------------------------------------------------------------------
HelpLong == <<"--help">>
HelpShort == <<"-h">>
\* Paths the command line may name.  "/" and "r" (relative to the working
\* directory, "/r" when resolved) are the directory that is scanned; "/f" is
\* a plain file; "/x" does not exist.
PathSlash == <<"/">>
PathR == <<"/", "r">>
PathRel == <<"r">>
PathFile == <<"/", "f">>
PathMissing == <<"/", "x">>
DirPaths == {PathSlash, PathRel}
\* Deno.cwd()
Cwd == <<"/">>

ArgLists ==
    {<<>>, <<HelpLong>>, <<PathRel, HelpShort>>, <<PathFile>>, <<PathMissing>>}
    \cup {<<p>> : p \in DirPaths}

Times == 1..MaxTime
\* ok tells whether Deno.stat succeeds on the file.  A file whose stat fails
\* still has times on disk (here the latest ones); the program cannot read them.
FileCells == {[kind |-> "file", ok |-> FALSE, birthtime |-> MaxTime, mtime |-> MaxTime]}
             \cup [kind : {"file"}, ok : {TRUE}, birthtime : {NULL} \cup Times, mtime : {NULL} \cup Times]
DirCell == [kind |-> "dir", ok |-> TRUE, birthtime |-> NULL, mtime |-> NULL]
\* a symlink, device or socket: entry.isFile and entry.isDirectory are both false
OtherCell == [kind |-> "other", ok |-> TRUE, birthtime |-> NULL, mtime |-> NULL]
NoneCell == [kind |-> "none", ok |-> FALSE, birthtime |-> NULL, mtime |-> NULL]
Cells == FileCells \cup {DirCell, OtherCell, NoneCell}

\* The trees on slots 1..k: the target is a directory, and a slot holds an
\* entry exactly when its parent slot holds a directory.
RECURSIVE TreesUpTo(_)
TreesUpTo(k) ==
    IF k = Root THEN {<<DirCell>>}
    ELSE UNION {{Append(t, c) : c \in IF t[Parent(k)].kind = "dir"
                                      THEN Cells \ {NoneCell} ELSE {NoneCell}}
                : t \in TreesUpTo(k - 1)}

Trees == TreesUpTo(MaxNode)

\* Deno.stat(path).isDirectory for a command-line path; "none" when stat throws
ArgKind(p) == IF p \in DirPaths THEN "dir" ELSE IF p = PathFile THEN "file" ELSE "none"
\* Deno.realPath(path) for a path naming the scanned directory
RealPath(p) == IF p = PathRel THEN PathR ELSE p

\* entries of the directory in slot n
Entries(n) == {c \in Slots(n) : fs[c].kind # "none"}

\* ------------------------------------------------------------------------
\* Pure functions of the program
\* ------------------------------------------------------------------------
\* path.match(/^([a-zA-Z]:)?[\\/]/): the paths of the model carry no drive letter
IsAbsolute(p) == Len(p) > 0 /\ p[1] \in {"\\", "/"}

\* normalizePath(path); realPathOk tells whether Deno.realPath succeeds
NormalizePath(path, realPathOk) ==
    IF realPathOk
    THEN SplitJoin(RealPath(path), separator)
    ELSE LET absPath == IF ~IsAbsolute(path) THEN Cwd \o <<separator>> \o path ELSE path
         IN  SplitJoin(absPath, separator)

\* isValidDirectory(path)
IsValidDirectory(p) == ArgKind(p) = "dir"

\* getFileStats(filePath) for the file in slot e
GetFileStats(e) ==
    IF fs[e].ok
    THEN [birthtime |-> fs[e].birthtime, mtime |-> fs[e].mtime]
    ELSE [birthtime |-> NULL, mtime |-> NULL]

\* the folderStat a call of scanDirectory starts with
NewFolderStat(dirPath) ==
    [path |-> dirPath, latestCreated |-> NULL, latestModified |-> NULL,
     fileCount |-> 0, cumulativeFileCount |-> 0]

\* `${dirPath}${separator}${entry.name}`
FullPath(dirPath, e) == dirPath \o <<separator>> \o Name(e)

\* Later with the comparison of the two dates left out
LaterKeepsFirst(latest, date) == IF date # NULL /\ latest = NULL THEN date ELSE latest

\* date && (!latest || date > latest) ? date : latest
Later(latest, date) == IF date # NULL /\ (latest = NULL \/ date > latest) THEN date ELSE latest

\* CountFile counting only the files whose stat gave a time
CountFileIfStatted(folderStat, fileStats) ==
    IF fileStats.birthtime = NULL /\ fileStats.mtime = NULL
    THEN folderStat
    ELSE [folderStat EXCEPT
            !.fileCount = @ + 1,
            !.cumulativeFileCount = @ + 1,
            !.latestCreated = Later(@, fileStats.birthtime),
            !.latestModified = Later(@, fileStats.mtime)]

\* body of the loop for an entry with entry.isFile
CountFile(folderStat, fileStats) ==
    [folderStat EXCEPT
        !.fileCount = @ + 1,
        !.cumulativeFileCount = @ + 1,
        !.latestCreated = Later(@, fileStats.birthtime),
        !.latestModified = Later(@, fileStats.mtime)]

\* FoldOne adding the subdirectory's own fileCount instead of its cumulative count
FoldOneAddsFileCount(folderStat, subStat) ==
    [folderStat EXCEPT
        !.cumulativeFileCount = @ + subStat.fileCount,
        !.latestCreated = Later(@, subStat.latestCreated),
        !.latestModified = Later(@, subStat.latestModified)]

\* FoldOne taking the subdirectory's dates whenever it has them
FoldOneOverwrites(folderStat, subStat) ==
    [folderStat EXCEPT
        !.cumulativeFileCount = @ + subStat.cumulativeFileCount,
        !.latestCreated = IF subStat.latestCreated # NULL THEN subStat.latestCreated ELSE @,
        !.latestModified = IF subStat.latestModified # NULL THEN subStat.latestModified ELSE @]

\* body of `if (subStat.path === fullPath)` for one subStat
FoldOne(folderStat, subStat) ==
    [folderStat EXCEPT
        !.cumulativeFileCount = @ + subStat.cumulativeFileCount,
        !.latestCreated = Later(@, subStat.latestCreated),
        !.latestModified = Later(@, subStat.latestModified)]

\* for (const subStat of subStats) if (subStat.path === fullPath) ...
RECURSIVE FoldSubStats(_, _, _, _)
FoldSubStats(folderStat, subStats, fullPath, i) ==
    IF i > Len(subStats) THEN folderStat
    ELSE FoldSubStats(IF subStats[i].path = fullPath THEN FoldOne(folderStat, subStats[i])
                                                     ELSE folderStat,
                      subStats, fullPath, i + 1)

\* Unshift putting the record at the end (push instead of unshift)
UnshiftAppends(folderStat, acc) == Append(acc, folderStat)

\* stats.unshift(folderStat); return stats
Unshift(folderStat, acc) == <<folderStat>> \o acc

\* the state of a call scanDirectory(dirPath, []) when it starts: node is the
\* directory the path resolves to, remaining what Deno.readDir has still to yield
NewFrame(dirPath, node) ==
    [dirPath |-> dirPath, node |-> node, folderStat |-> NewFolderStat(dirPath),
     stats |-> <<>>, remaining |-> Entries(node)]

\* formatDate(date)
FormatDate(date) == IF date = NULL THEN <<"-">> ELSE <<"date", date>>

\* displayPath of a row of displayResults
DisplayPath(path, rootPath) ==
    LET rootWithSeparator == IF EndsWith(rootPath, <<separator>>) THEN rootPath
                                                                  ELSE rootPath \o <<separator>>
    IN  IF path = rootPath THEN <<"(root)">>
        ELSE IF StartsWith(path, rootWithSeparator)
             THEN <<"(root)", "/">> \o ReplaceBackslashes(Substring(path, Len(rootWithSeparator)))
             ELSE path

DisplayRow(stat, rootPath) ==
    [path |-> DisplayPath(stat.path, rootPath),
     created |-> FormatDate(stat.latestCreated),
     modified |-> FormatDate(stat.latestModified),
     files |-> <<stat.fileCount, stat.cumulativeFileCount>>]

\* ------------------------------------------------------------------------
\* Initial state
\* ------------------------------------------------------------------------
NoPrev == [stats |-> <<>>, yielded |-> [n \in Nodes |-> {}]]

Init ==
    /\ args \in ArgLists
    /\ fs \in Trees
    /\ pc = "main"
    /\ exitCode = -1
    /\ errors = <<>>
    /\ helpPrinted = FALSE
    /\ targetPath = <<>>
    /\ normalizedPath = <<>>
    /\ stack = <<>>
    /\ stats = <<>>
    /\ table = <<>>
    /\ scanLog = {}
    /\ yielded = [n \in Nodes |-> {}]
    /\ run = 1
    /\ prev = NoPrev

\* ------------------------------------------------------------------------
\* main
\* ------------------------------------------------------------------------
scanVars == <<stack, stats, scanLog, yielded>>

\* args.includes("--help") || args.includes("-h")
HasHelpFlag == \E i \in 1..Len(args) : args[i] \in {HelpLong, HelpShort}

\* the help check: printHelp(); Deno.exit(args.length === 0 ? 1 : 0)
ShowHelp ==
    /\ pc = "main"
    /\ Len(args) = 0 \/ HasHelpFlag
    /\ helpPrinted' = TRUE
    /\ exitCode' = IF Len(args) = 0 THEN 1 ELSE 0
    /\ pc' = "exited"
    /\ UNCHANGED <<env, errors, targetPath, normalizedPath, scanVars, table, run, prev>>

\* const targetPath = args[0]
TakeTarget ==
    /\ pc = "main"
    /\ ~(Len(args) = 0 \/ HasHelpFlag)
    /\ targetPath' = args[1]
    /\ pc' = "validate"
    /\ UNCHANGED <<env, exitCode, errors, helpPrinted, normalizedPath, scanVars, table, run, prev>>

\* RejectTarget without the Deno.exit(1)
RejectTargetGoesOn ==
    /\ pc = "validate"
    /\ ~IsValidDirectory(targetPath)
    /\ errors' = Append(errors, targetPath)
    /\ pc' = "normalize"
    /\ UNCHANGED <<env, exitCode, helpPrinted, targetPath, normalizedPath, scanVars, table, run, prev>>

\* if (!(await isValidDirectory(targetPath))) { console.error(...); Deno.exit(1) }
RejectTarget ==
    /\ pc = "validate"
    /\ ~IsValidDirectory(targetPath)
    /\ errors' = Append(errors, targetPath)
    /\ exitCode' = 1
    /\ pc' = "exited"
    /\ UNCHANGED <<env, helpPrinted, targetPath, normalizedPath, scanVars, table, run, prev>>

AcceptTarget ==
    /\ pc = "validate"
    /\ IsValidDirectory(targetPath)
    /\ pc' = "normalize"
    /\ UNCHANGED <<env, exitCode, errors, helpPrinted, targetPath, normalizedPath, scanVars, table,
                   run, prev>>

\* const normalizedPath = await normalizePath(targetPath);
\* then the call scanDirectory(normalizedPath) starts
StartScan ==
    /\ pc = "normalize"
    /\ \E realPathOk \in BOOLEAN :
          /\ normalizedPath' = NormalizePath(targetPath, realPathOk)
          /\ stack' = <<NewFrame(normalizedPath', Root)>>
    /\ pc' = "scan"
    /\ UNCHANGED <<env, exitCode, errors, helpPrinted, targetPath, stats, scanLog, yielded, table,
                   run, prev>>

\* ------------------------------------------------------------------------
\* scanDirectory: the innermost active call is the last frame of the stack
\* ------------------------------------------------------------------------
Top == stack[Len(stack)]
SetTop(f) == [stack EXCEPT ![Len(stack)] = f]
mainVars == <<env, exitCode, errors, helpPrinted, targetPath, normalizedPath, table, run, prev>>

Yield(e) == yielded' = [yielded EXCEPT ![Top.node] = @ \cup {e}]

\* the loop body for an entry with entry.isFile
ProcessFile(e) ==
    /\ pc = "scan"
    /\ e \in Top.remaining
    /\ fs[e].kind = "file"
    /\ stack' = SetTop([Top EXCEPT !.remaining = @ \ {e},
                                   !.folderStat = CountFile(@, GetFileStats(e))])
    /\ Yield(e)
    /\ UNCHANGED <<mainVars, pc, stats, scanLog>>

\* the loop body for an entry with entry.isDirectory, up to the recursive call
EnterSubdir(e) ==
    /\ pc = "scan"
    /\ e \in Top.remaining
    /\ fs[e].kind = "dir"
    /\ stack' = Append(SetTop([Top EXCEPT !.remaining = @ \ {e}]),
                       NewFrame(FullPath(Top.dirPath, e), e))
    /\ Yield(e)
    /\ UNCHANGED <<mainVars, pc, stats, scanLog>>

\* SkipOther treating the entry as a plain file
SkipOtherAsFile(e) ==
    /\ pc = "scan"
    /\ e \in Top.remaining
    /\ fs[e].kind = "other"
    /\ stack' = SetTop([Top EXCEPT !.remaining = @ \ {e},
                                   !.folderStat = CountFile(@, GetFileStats(e))])
    /\ Yield(e)
    /\ UNCHANGED <<mainVars, pc, stats, scanLog>>

\* the loop body for an entry that is neither a file nor a directory
SkipOther(e) ==
    /\ pc = "scan"
    /\ e \in Top.remaining
    /\ fs[e].kind = "other"
    /\ stack' = SetTop([Top EXCEPT !.remaining = @ \ {e}])
    /\ Yield(e)
    /\ UNCHANGED <<mainVars, pc, stats, scanLog>>

\* Resume keeping only the subdirectory's own record
ResumeOnlyChild(caller, subStats, fullPath) ==
    [caller EXCEPT !.stats = Append(@, subStats[1]),
                   !.folderStat = FoldSubStats(@, subStats, fullPath, 1)]

\* what the caller does with the value a recursive call returns:
\* stats.push(...subStats), then the fold loop
Resume(caller, subStats, fullPath) ==
    [caller EXCEPT !.stats = @ \o subStats,
                   !.folderStat = FoldSubStats(@, subStats, fullPath, 1)]

\* stats.unshift(folderStat); return stats  (to the calling scanDirectory, or to main)
ReturnStats ==
    LET result == Unshift(Top.folderStat, Top.stats)
    IN  IF Len(stack) = 1
        THEN /\ stats' = result
             /\ stack' = <<>>
             /\ pc' = "display"
        ELSE /\ stack' = [i \in 1..(Len(stack) - 1) |->
                            IF i = Len(stack) - 1
                            THEN Resume(stack[i], result, Top.dirPath)
                            ELSE stack[i]]
             /\ UNCHANGED <<stats, pc>>

\* the loop ends: Deno.readDir has yielded every entry
FinishDir ==
    /\ pc = "scan"
    /\ Top.remaining = {}
    /\ ReturnStats
    /\ UNCHANGED <<mainVars, scanLog, yielded>>

\* ReadDirFails without the catch block: the rejection ends the process
ReadDirFailsAborts ==
    /\ pc = "scan"
    /\ stack' = <<>>
    /\ exitCode' = 1
    /\ pc' = "exited"
    /\ UNCHANGED <<env, errors, helpPrinted, targetPath, normalizedPath, stats, scanLog, yielded,
                   table, run, prev>>

\* Deno.readDir throws (when the directory is opened or between two entries):
\* the catch block logs, and the call returns what it has
ReadDirFails ==
    /\ pc = "scan"
    /\ scanLog' = scanLog \cup {Top.node}
    /\ ReturnStats
    /\ UNCHANGED <<mainVars, yielded>>

\* the two summary lines below the table
Summary(folderStats) ==
    [totalFolders |-> Len(folderStats),
     totalFiles |-> IF Len(folderStats) = 0 THEN 0 ELSE folderStats[1].cumulativeFileCount]

\* displayResults(stats, normalizedPath)
DisplayResults ==
    /\ pc = "display"
    /\ table' = IF Len(stats) = 0
                THEN <<"No folders found.">>
                ELSE Append([i \in 1..Len(stats) |-> DisplayRow(stats[i], normalizedPath)],
                            Summary(stats))
    /\ pc' = "done"
    /\ UNCHANGED <<env, exitCode, errors, helpPrinted, targetPath, normalizedPath, scanVars,
                   run, prev>>

Next ==
    \/ ShowHelp
    \/ TakeTarget
    \/ RejectTarget
    \/ AcceptTarget
    \/ StartScan
    \/ \E e \in Nodes : ProcessFile(e)
    \/ \E e \in Nodes : EnterSubdir(e)
    \/ \E e \in Nodes : SkipOther(e)
    \/ FinishDir
    \/ ReadDirFails
    \/ DisplayResults

Spec == Init /\ [][Next]_vars

\* the runtime resumes the program after every await: a step that can be
\* taken is taken
FairSpec == Spec /\ WF_vars(Next)

\* A second scan of the same tree: the first result is kept and
\* scanDirectory(normalizedPath) is called again.
Rescan ==
    /\ pc = "done"
    /\ run = 1
    /\ prev' = [stats |-> stats, yielded |-> yielded]
    /\ run' = 2
    /\ stack' = <<NewFrame(normalizedPath, Root)>>
    /\ stats' = <<>>
    /\ table' = <<>>
    /\ scanLog' = {}
    /\ yielded' = [n \in Nodes |-> {}]
    /\ pc' = "scan"
    /\ UNCHANGED <<env, exitCode, errors, helpPrinted, targetPath, normalizedPath>>

NextTwice == Next \/ Rescan

\* the two scans are compared on the directory named "/"
InitTwice == Init /\ args \in {<<>>, <<PathFile>>, <<PathSlash>>}

SpecTwice == InitTwice /\ [][NextTwice]_vars

\* ------------------------------------------------------------------------
\* Vocabulary of the properties
\* ------------------------------------------------------------------------
\* the outermost scanDirectory has returned its sequence to main
ScanReturned == pc \in {"display", "done"}

\* the path scanDirectory gives the directory in slot n
RECURSIVE PathOf(_)
PathOf(n) == IF n = Root THEN normalizedPath ELSE FullPath(PathOf(Parent(n)), n)

Dirs == {n \in Nodes : fs[n].kind = "dir"}
\* directories a call of scanDirectory was made for
Visited == {n \in Dirs : n = Root \/ n \in yielded[Parent(n)]}
SubDirs(n) == {c \in Entries(n) : fs[c].kind = "dir"}
PlainFiles(n) == {c \in Entries(n) : fs[c].kind = "file"}

\* positions of the returned sequence holding a record for slot n, and the record
RecIdx(n) == {i \in 1..Len(stats) : stats[i].path = PathOf(n)}
Rec(n) == stats[CHOOSE i \in RecIdx(n) : TRUE]
\* every returned record is the record of a visited directory
RecordsAreOfVisited == \A i \in 1..Len(stats) : \E n \in Visited : stats[i].path = PathOf(n)

RECURSIVE SumCumulative(_)
SumCumulative(S) ==
    IF S = {} THEN 0
    ELSE LET c == CHOOSE x \in S : TRUE
         IN  Rec(c).cumulativeFileCount + SumCumulative(S \ {c})

MaxOrNull(S) == IF S = {} THEN NULL ELSE CHOOSE m \in S : \A x \in S : x <= m

\* plain files below slot n, in a tree t: all of them, and those the
\* enumerations y yielded
FilesBelow(t, n) ==
    {f \in Nodes \ {Root} : t[f].kind = "file" /\ IsAncestorOrSelf(n, Parent(f))}
FilesSeenBelow(t, y, n) == {f \in FilesBelow(t, n) : f \in y[Parent(f)]}
KnownCreated(t, F) == {t[f].birthtime : f \in {g \in F : t[g].ok /\ t[g].birthtime # NULL}}
KnownModified(t, F) == {t[f].mtime : f \in {g \in F : t[g].ok /\ t[g].mtime # NULL}}

\* the record of slot n that the aggregation contract asks for, when the
\* tree is t and the enumeration of each directory d yields y[d]
ExpectedRecord(t, y, n) ==
    [path |-> PathOf(n),
     latestCreated |-> MaxOrNull(KnownCreated(t, FilesSeenBelow(t, y, n))),
     latestModified |-> MaxOrNull(KnownModified(t, FilesSeenBelow(t, y, n))),
     fileCount |-> Cardinality({f \in y[n] : t[f].kind = "file"}),
     cumulativeFileCount |-> Cardinality(FilesSeenBelow(t, y, n))]

\* an enumeration that yields everything
AllEntries == [n \in Nodes |-> Entries(n)]

\* ------------------------------------------------------------------------
\* C1: counts
\* ------------------------------------------------------------------------
\* C1 as stated: every returned record D has cumulativeFileCount = fileCount
\* + the sum of cumulativeFileCount of the records of D's immediate
\* subdirectories, fileCount being the number of plain files directly in D.
C1_AsStated ==
    ScanReturned =>
        /\ RecordsAreOfVisited
        /\ \A n \in Visited :
              /\ RecIdx(n) # {}
              /\ Rec(n).fileCount = Cardinality(PlainFiles(n))
              /\ Rec(n).cumulativeFileCount =
                    Rec(n).fileCount + SumCumulative(SubDirs(n) \cap Visited)
              /\ Rec(n).cumulativeFileCount >= Rec(n).fileCount

\* C1 amended: every returned record D has cumulativeFileCount = fileCount +
\* the sum of cumulativeFileCount of the records of D's immediate
\* subdirectories, each of which has exactly one record; fileCount is the
\* number of plain files the enumeration of D yielded, which is every plain
\* file directly in D when that enumeration did not fail; so
\* cumulativeFileCount >= fileCount.
C1_Counts ==
    ScanReturned =>
        /\ RecordsAreOfVisited
        /\ \A n \in Visited :
              /\ RecIdx(n) # {}
              /\ Rec(n).fileCount = Cardinality(PlainFiles(n) \cap yielded[n])
              /\ n \notin scanLog => Rec(n).fileCount = Cardinality(PlainFiles(n))
              /\ \A c \in SubDirs(n) \cap Visited : Cardinality(RecIdx(c)) = 1
              /\ Rec(n).cumulativeFileCount =
                    Rec(n).fileCount + SumCumulative(SubDirs(n) \cap Visited)
              /\ Rec(n).cumulativeFileCount >= Rec(n).fileCount

\* a scan without failure returned a directory with a plain file of its own
\* and a subdirectory whose files lie further down
C1_Witness ==
    /\ ScanReturned
    /\ scanLog = {}
    /\ \E n \in Visited :
          /\ PlainFiles(n) # {}
          /\ \E c \in SubDirs(n) :
                /\ RecIdx(c) # {}
                /\ Rec(c).cumulativeFileCount > Rec(c).fileCount

\* ------------------------------------------------------------------------
\* C2: latest timestamps
\* ------------------------------------------------------------------------
\* C2 as stated: latestCreated (latestModified) of every returned record is
\* the maximum known creation (modification) time over all files of the
\* directory's subtree, and null when there is none.
C2_AsStated ==
    ScanReturned =>
        \A n \in Visited :
            /\ RecIdx(n) # {}
            /\ Rec(n).latestCreated = MaxOrNull(KnownCreated(fs, FilesBelow(fs, n)))
            /\ Rec(n).latestModified = MaxOrNull(KnownModified(fs, FilesBelow(fs, n)))

\* C2 amended: latestCreated (latestModified) of every returned record is the
\* maximum known creation (modification) time over the files of the
\* directory's subtree that the enumerations yielded, and null when none of
\* them has one; these are all files of the subtree when no enumeration failed.
C2_Latest ==
    ScanReturned =>
        \A n \in Visited :
            /\ RecIdx(n) # {}
            /\ Rec(n).latestCreated = MaxOrNull(KnownCreated(fs, FilesSeenBelow(fs, yielded, n)))
            /\ Rec(n).latestModified = MaxOrNull(KnownModified(fs, FilesSeenBelow(fs, yielded, n)))
            /\ scanLog = {} => FilesSeenBelow(fs, yielded, n) = FilesBelow(fs, n)

\* a scan without failure where the root's latest creation time comes from a
\* file two levels down and its latest modification time from a file of its own
C2_Witness ==
    /\ ScanReturned
    /\ scanLog = {}
    /\ \E f \in FilesBelow(fs, Root), g \in PlainFiles(Root) :
          /\ Depth(f) = 2
          /\ fs[f].ok /\ fs[g].ok
          /\ fs[g].birthtime # NULL /\ fs[f].mtime # NULL
          /\ fs[f].birthtime > fs[g].birthtime
          /\ fs[g].mtime > fs[f].mtime
          /\ Rec(Root).latestCreated = fs[f].birthtime
          /\ Rec(Root).latestModified = fs[g].mtime

\* ------------------------------------------------------------------------
\* C3: one record per directory, root first
\* ------------------------------------------------------------------------
NoPathTwice == \A i, j \in 1..Len(stats) : stats[i].path = stats[j].path => i = j

\* C3 as stated: the root's record is first, no path appears twice, and there
\* is exactly one record per directory of the tree.
C3_AsStated ==
    ScanReturned =>
        /\ stats[1].path = normalizedPath
        /\ NoPathTwice
        /\ Len(stats) = Cardinality(Dirs)
        /\ \A d \in Dirs : Cardinality(RecIdx(d)) = 1

\* C3 amended: the root's record is first, no path appears twice, and there
\* is exactly one record per directory the scan reached (the root and every
\* directory entry an enumeration yielded); these are all directories of the
\* tree when no enumeration failed.
C3_OnePerDirectory ==
    ScanReturned =>
        /\ stats[1].path = normalizedPath
        /\ NoPathTwice
        /\ Len(stats) = Cardinality(Visited)
        /\ \A d \in Visited : Cardinality(RecIdx(d)) = 1
        /\ scanLog = {} => Visited = Dirs

\* a scan without failure returned the records of a root with two
\* subdirectories, one of them with a subdirectory of its own
C3_Witness ==
    /\ ScanReturned
    /\ scanLog = {}
    /\ Cardinality(SubDirs(Root)) = 2
    /\ \E c \in SubDirs(Root) : SubDirs(c) # {}
    /\ Len(stats) = 4

\* ------------------------------------------------------------------------
\* C4: a directory whose enumeration fails
\* ------------------------------------------------------------------------
\* the tree t with the directory in slot x emptied
Emptied(t, x) == [n \in Nodes |-> IF n # x /\ IsAncestorOrSelf(x, n) THEN NoneCell ELSE t[n]]

WithoutTimes(t, f) ==
    [t EXCEPT ![f] = [kind |-> "file", ok |-> TRUE, birthtime |-> NULL, mtime |-> NULL]]

\* C5: when the stat of a plain file F of directory D fails the scan goes on,
\* F counts 1 in D.fileCount and in cumulativeFileCount of D and of every
\* ancestor of D, and every record is what it would be if F had no known
\* times.
C5_StatFailure ==
    /\ (\E n \in Nodes : yielded[n] # {}) => pc \in {"scan", "display", "done"} /\ exitCode = -1
    /\ ScanReturned =>
          \A f \in Nodes \ {Root} :
              (fs[f].kind = "file" /\ ~fs[f].ok /\ f \in yielded[Parent(f)]) =>
                  /\ Rec(Parent(f)).fileCount = Cardinality(PlainFiles(Parent(f)) \cap yielded[Parent(f)])
                  /\ \A a \in Visited :
                        /\ RecIdx(a) # {}
                        /\ IsAncestorOrSelf(a, Parent(f)) =>
                              Rec(a).cumulativeFileCount = Cardinality(FilesSeenBelow(fs, yielded, a))
                        /\ Rec(a) = ExpectedRecord(WithoutTimes(fs, f), yielded, a)

\* the scan returned after the stat of a file two levels down failed; that
\* file is counted at the root, whose latest times come from an earlier file
C5_Witness ==
    /\ ScanReturned
    /\ \E f \in FilesBelow(fs, Root), g \in PlainFiles(Root) :
          /\ Depth(f) = 2
          /\ ~fs[f].ok
          /\ f \in yielded[Parent(f)]
          /\ fs[g].ok /\ fs[g].birthtime = 1 /\ fs[g].mtime = 1
          /\ Rec(Root).cumulativeFileCount = 2
          /\ Rec(Root).latestCreated = 1
          /\ Rec(Root).latestModified = 1

\* ------------------------------------------------------------------------
\* C6: an invalid target
\* ------------------------------------------------------------------------
NothingScanned ==
    /\ stack = <<>>
    /\ stats = <<>>
    /\ table = <<>>
    /\ scanLog = {}
    /\ \A n \in Nodes : yielded[n] = {}

\* C6: when the first argument is not an existing directory and no help flag
\* is given, main reports the error once and exits with code 1; no scan is
\* started and no table printed, then or later.
C6_InvalidTarget ==
    /\ (Len(args) > 0 /\ ~HasHelpFlag /\ ~IsValidDirectory(args[1])) =>
          /\ pc \in {"main", "validate", "exited"}
          /\ NothingScanned
          /\ pc = "exited" => exitCode = 1 /\ errors = <<args[1]>> /\ ~helpPrinted
          /\ pc # "exited" => exitCode = -1 /\ errors = <<>>
    /\ errors # <<>> => pc = "exited" /\ exitCode = 1 /\ Len(errors) = 1 /\ NothingScanned

\* main has exited after rejecting a path that names a plain file
C6_Witness ==
    /\ pc = "exited"
    /\ targetPath = PathFile
    /\ errors = <<PathFile>>
    /\ exitCode = 1

\* ------------------------------------------------------------------------
\* C8: displayed paths
\* ------------------------------------------------------------------------
\* C8: for every root normalizePath can return, the root's row shows
\* "(root)", every other record's path starts with the root plus a separator
\* and is not shown verbatim, and an immediate subdirectory named sub of the
\* root shows as "(root)/sub".
C8_AsStated ==
    (pc = "done" /\ scanLog = {}) =>
        /\ table[1].path = <<"(root)">>
        /\ \A i \in 2..Len(stats) :
              /\ StartsWith(stats[i].path, normalizedPath \o <<separator>>)
              /\ table[i].path # stats[i].path
        /\ \A c \in SubDirs(Root) \cap Visited :
              \A i \in RecIdx(c) : table[i].path = <<"(root)", "/">> \o Name(c)

\* ------------------------------------------------------------------------
\* C9: depth-first order
\* ------------------------------------------------------------------------
NodeOfPath(p) == CHOOSE n \in Dirs : PathOf(n) = p

\* in seq a directory's record comes before the records of its descendants,
\* and the records of its subtree are contiguous
DepthFirst(seq) ==
    LET node == [i \in 1..Len(seq) |-> NodeOfPath(seq[i].path)]
    IN  \A i, j \in 1..Len(seq) :
            (node[i] # node[j] /\ IsAncestorOrSelf(node[i], node[j])) =>
                /\ i < j
                /\ \A k \in i..j : IsAncestorOrSelf(node[i], node[k])

\* the active visits form one chain from the root, each the visit of a
\* subdirectory its caller's enumeration yielded
ActiveChain ==
    /\ stack # <<>> => stack[1].node = Root
    /\ \A i \in 1..(Len(stack) - 1) :
          /\ Parent(stack[i + 1].node) = stack[i].node
          /\ stack[i + 1].node \in yielded[stack[i].node]

\* while the visit of a directory is active its record is in no sequence, and
\* each subdirectory it reached is either being visited or has its record in
\* the visit's sequence
ChildrenBeforeParent ==
    \A i \in 1..Len(stack) :
        /\ \A j \in 1..Len(stack) : \A k \in 1..Len(stack[j].stats) :
              stack[j].stats[k].path # stack[i].dirPath
        /\ \A c \in yielded[stack[i].node] \cap Dirs :
              \/ i < Len(stack) /\ stack[i + 1].node = c
              \/ \E k \in 1..Len(stack[i].stats) : stack[i].stats[k].path = PathOf(c)

\* C9: a directory's record is put into the sequence only after the visits
\* of the subdirectories it reached have returned with their records, active
\* visits are ancestor and descendant of one another, and the returned
\* sequence is in depth-first order.
C9_DepthFirst ==
    /\ ActiveChain
    /\ ChildrenBeforeParent
    /\ \A i \in 1..Len(stack) : DepthFirst(stack[i].stats)
    /\ ScanReturned => stack = <<>> /\ DepthFirst(stats)

\* the scan returned four records: the root, its second subdirectory, then
\* its first subdirectory followed by that one's subdirectory
C9_Witness ==
    /\ ScanReturned
    /\ Len(stats) = 4
    /\ NodeOfPath(stats[2].path) = 3
    /\ NodeOfPath(stats[3].path) = 2
    /\ NodeOfPath(stats[4].path) = 4

\* ------------------------------------------------------------------------
\* C7: two scans of the same tree
\* ------------------------------------------------------------------------
Records(seq) == {seq[i] : i \in 1..Len(seq)}
SecondScanReturned == run = 2 /\ ScanReturned

WithoutOthers(t) == [n \in Nodes |-> IF t[n].kind = "other" THEN NoneCell ELSE t[n]]
YieldedWithoutOthers == [n \in Nodes |-> {e \in yielded[n] : fs[e].kind # "other"}]

\* this step is the enumeration yielding an entry that is neither file nor directory
OtherYielded ==
    \E e \in Nodes \ {Root} :
        fs[e].kind = "other" /\ e \notin yielded[Parent(e)] /\ e \in yielded'[Parent(e)]

\* nothing of the scan changes but the position of the innermost enumeration
OnlyEnumerationAdvances ==
    /\ Len(stack') = Len(stack)
    /\ \A i \in 1..Len(stack) :
          /\ stack'[i].folderStat = stack[i].folderStat
          /\ stack'[i].stats = stack[i].stats
          /\ stack'[i].dirPath = stack[i].dirPath
    /\ UNCHANGED <<stats, scanLog, table, pc>>

ResultIgnoresOthers ==
    ScanReturned =>
        /\ Len(stats) = Cardinality(Visited)
        /\ \A n \in Visited :
              /\ RecIdx(n) # {}
              /\ Rec(n) = ExpectedRecord(WithoutOthers(fs), YieldedWithoutOthers, n)

\* C10: an entry that is neither a plain file nor a directory changes no
\* count, no timestamp and no record and starts no visit, the result is that
\* of the tree without the entry, and the scan terminates.
C10_OtherEntries ==
    /\ []ResultIgnoresOthers
    /\ [][OtherYielded => OnlyEnumerationAdvances]_vars
    /\ <>(pc \in {"done", "exited"})

\* the scan returned after yielding a symlink two levels down, next to files
\* that were counted
C10_Witness ==
    /\ ScanReturned
    /\ \E e \in Nodes :
          /\ fs[e].kind = "other"
          /\ Depth(e) = 2
          /\ e \in yielded[Parent(e)]
    /\ Rec(Root).fileCount = 1
    /\ Rec(Root).cumulativeFileCount = 1

====
